---- MODULE Spec2Model ----
(***************************************************************************)
(* A model of awwparse's token resolution and dispatch engine:             *)
(* Arguments (the token cursor), Option.matches / Option.parse,            *)
(* Positional.parse, the accumulation actions, and Command.run with its    *)
(* error handling.                                                         *)
(*                                                                         *)
(* A token (a Python str) is a sequence of one-character strings, so that  *)
(* startswith / lstrip / takewhile are computed character by character.    *)
(* Identifiers and command names are tokens as well.                       *)
(***************************************************************************)
EXTENDS Integers, Sequences, FiniteSets, TLC

VARIABLES
    tree,        \* the command tree built in the registration phase
    cli,         \* the root's flavour: kind, passthrough_errors, exit hook
    arguments,   \* the Arguments object shared by the whole dispatch
    stack,       \* the call stack of Command.run frames, innermost last
    outcome,     \* what the outermost run call gave its caller
    log,         \* every observable event of the dispatch, in order
    pure         \* inputs and result of a pure function applied on its own

vars == <<tree, cli, arguments, stack, outcome, log, pure>>

(***************************************************************************)
(* Bounds of the model.                                                    *)
(***************************************************************************)
MaxArgs == 4        \* longest input token sequence
MaxFold == 4        \* longest sequence of occurrence values folded
MaxInt == 2         \* occurrence values are drawn from -MaxInt..MaxInt
MaxToken == 4       \* longest token handed to Option.matches

(***************************************************************************)
(* Python values.                                                          *)
(***************************************************************************)
None == <<"None">>                       \* None where a str is expected
NoneV == [t |-> "none"]                  \* None as a stored value
StrV(s) == [t |-> "str", v |-> s]
IntV(n) == [t |-> "int", v |-> n]
ListV(l) == [t |-> "list", v |-> l]
SetV(s) == [t |-> "set", v |-> s]

Range(s) == {s[i] : i \in DOMAIN s}

(***************************************************************************)
(* actions.py                                                              *)
(* Each action returns [exc, v]: exc is "" or the exception Python raises  *)
(* for operands of the wrong type.                                         *)
(***************************************************************************)
Ok(v) == [exc |-> "", v |-> v]
Raise(e) == [exc |-> e, v |-> NoneV]

store_last(previous, current) == Ok(current)

append_to_list(previous, current) ==
    IF previous.t = "none" THEN Ok(ListV(<<current>>))
    ELSE IF previous.t = "list" THEN Ok(ListV(Append(previous.v, current)))
    ELSE Raise("AttributeError")

add_to_set(previous, current) ==
    IF previous.t \notin {"none", "set"} THEN Raise("AttributeError")
    ELSE IF current.t \in {"list", "set"} THEN Raise("TypeError")
    ELSE IF previous.t = "none" THEN Ok(SetV({current}))
    ELSE Ok(SetV(previous.v \cup {current}))

plus(a, b) ==
    IF a.t = "int" /\ b.t = "int" THEN Ok(IntV(a.v + b.v))
    ELSE IF a.t = b.t /\ a.t \in {"str", "list"} THEN Ok([t |-> a.t, v |-> a.v \o b.v])
    ELSE Raise("TypeError")

minus(a, b) ==
    IF a.t = "int" /\ b.t = "int" THEN Ok(IntV(a.v - b.v))
    ELSE IF a.t = "set" /\ b.t = "set" THEN Ok(SetV(a.v \ b.v))
    ELSE Raise("TypeError")

add(previous, current) ==
    plus(IF previous.t = "none" THEN IntV(0) ELSE previous, current)

\* sub without the implicit zero: the first occurrence stored as it is
sub_no_zero(previous, current) ==
    IF previous.t = "none" THEN Ok(current) ELSE minus(previous, current)

sub(previous, current) ==
    minus(IF previous.t = "none" THEN IntV(0) ELSE previous, current)

\* option.action(previous, current), by the name of the action function
apply_action(action, previous, current) ==
    CASE action = "store_last" -> store_last(previous, current)
      [] action = "append_to_list" -> append_to_list(previous, current)
      [] action = "add_to_set" -> add_to_set(previous, current)
      [] action = "add" -> add(previous, current)
      [] action = "sub" -> sub(previous, current)

(***************************************************************************)
(* positionals.py: signatures                                              *)
(* A signature item is a Positional, P(...), or a nested list, G(<<...>>). *)
(***************************************************************************)
Positional(type, optional, remaining) ==
    [type |-> type, optional |-> optional, remaining |-> remaining]

P(positional) == [k |-> "positional", p |-> positional]
G(items) == [k |-> "list", items |-> items]

\* a flattening that never sets .optional
RECURSIVE parse_positional_signature_unmarked(_, _)
parse_positional_signature_unmarked(positionals, root) ==
    IF positionals = <<>> THEN <<>>
    ELSE (IF Head(positionals).k = "positional" THEN <<Head(positionals).p>>
          ELSE parse_positional_signature_unmarked(Head(positionals).items, FALSE))
         \o parse_positional_signature_unmarked(Tail(positionals), root)

RECURSIVE parse_positional_signature(_, _)
parse_positional_signature(positionals, root) ==
    LET marked ==
            IF root THEN positionals
            ELSE [positionals EXCEPT ![1] = P([@.p EXCEPT !.optional = TRUE])]
        RECURSIVE walk(_)
        walk(rest) ==
            IF rest = <<>> THEN <<>>
            ELSE (IF Head(rest).k = "positional" THEN <<Head(rest).p>>
                  ELSE parse_positional_signature(Head(rest).items, FALSE))
                 \o walk(Tail(rest))
    IN walk(marked)

(***************************************************************************)
(* Option                                                                  *)
(***************************************************************************)
prefix_chars == {"-", "+"}

\* Option.__init__ / _parse_signature; help marks the HelpOption subclass
Option(short, long, signature, action) ==
    [short |-> short, long |-> long,
     positionals |-> parse_positional_signature(signature, TRUE),
     action |-> action, help |-> FALSE]

HelpOption ==
    [short |-> <<"-", "h">>, long |-> <<"-", "-", "h", "e", "l", "p">>,
     positionals |-> <<Positional("NativeString", FALSE, TRUE)>>,
     action |-> "store_last", help |-> TRUE]

startswith(s, p) == Len(p) <= Len(s) /\ SubSeq(s, 1, Len(p)) = p

\* an lstrip that drops nothing
lstrip_nothing(s, chars) == s

\* str.lstrip(chars): drops every leading character that is in chars
RECURSIVE lstrip(_, _)
lstrip(s, chars) ==
    IF s # <<>> /\ Head(s) \in chars THEN lstrip(Tail(s), chars) ELSE s

RECURSIVE takewhile(_, _)
takewhile(chars, s) ==
    IF s # <<>> /\ Head(s) \in chars
    THEN <<Head(s)>> \o takewhile(chars, Tail(s)) ELSE <<>>

get_prefix(argument) == takewhile(prefix_chars, argument)

matches(option, argument) ==
    IF argument = option.long THEN [matched |-> TRUE, modified |-> <<>>]
    ELSE IF option.short # None /\ startswith(argument, option.short) THEN
        LET prefix == get_prefix(option.short)
            stripped == lstrip(argument, Range(option.short))
            modified == IF stripped # <<>> THEN prefix \o stripped ELSE <<>>
        IN [matched |-> TRUE, modified |-> modified]
    ELSE [matched |-> FALSE, modified |-> argument]

(***************************************************************************)
(* Arguments: the token cursor                                             *)
(* _arguments is the unread part of the wrapped iterator, _remaining the   *)
(* deque of rewound tokens, trace the list of frames of consumed tokens.   *)
(***************************************************************************)
Arguments(args) == [_arguments |-> args, _remaining |-> <<>>, trace |-> <<<<>>>>]

ArgumentsCLI(args, application_name) ==
    [_arguments |-> args, _remaining |-> <<>>,
     trace |-> <<<<application_name>>, <<>>>>]

current_frame(a) == a.trace[Len(a.trace)]

push_current(a, argument) ==
    [a.trace EXCEPT ![Len(a.trace)] = Append(@, argument)]

\* next(): [stop, argument, a]; stop is StopIteration
Arguments_next(a) ==
    IF a._remaining # <<>> THEN
        [stop |-> FALSE, argument |-> Head(a._remaining),
         a |-> [a EXCEPT !._remaining = Tail(@),
                         !.trace = push_current(a, Head(a._remaining))]]
    ELSE IF a._arguments # <<>> THEN
        [stop |-> FALSE, argument |-> Head(a._arguments),
         a |-> [a EXCEPT !._arguments = Tail(@),
                         !.trace = push_current(a, Head(a._arguments))]]
    ELSE [stop |-> TRUE, argument |-> None, a |-> a]

\* a rewind that puts the token back twice
Arguments_rewind_twice(a) ==
    [a EXCEPT !._remaining = @ \o <<current_frame(a)[Len(current_frame(a))],
                                    current_frame(a)[Len(current_frame(a))]>>,
              !.trace = [a.trace EXCEPT ![Len(a.trace)] =
                             SubSeq(@, 1, Len(@) - 1)]]

\* a rewind that puts nothing back
Arguments_rewind_nothing(a) == a

\* rewind(): called only with a token in the current frame
Arguments_rewind(a) ==
    LET frame == current_frame(a)
    IN [a EXCEPT !._remaining = Append(@, frame[Len(frame)]),
                 !.trace = [a.trace EXCEPT ![Len(a.trace)] =
                                SubSeq(frame, 1, Len(frame) - 1)]]

\* the tokens next() will still return, in order
Arguments_pending(a) == a._remaining \o a._arguments


(***************************************************************************)
(* Command: lookups                                                        *)
(* A command is [options, commands, positionals, main]: options is the     *)
(* OrderedDict option -> identifier as a sequence of [option, identifier], *)
(* commands the OrderedDict name -> command as a sequence of               *)
(* [name, command], command being an index of the tree.                    *)
(***************************************************************************)
\* a dict built from (key, value) pairs keeps the last pair of a key
last_index(hits) ==
    IF hits = {} THEN 0 ELSE CHOOSE i \in hits : \A j \in hits : j <= i

option_shorts(command, argument) ==
    last_index({i \in DOMAIN command.options :
                   /\ command.options[i].option.short # None
                   /\ command.options[i].option.short = argument})

option_longs(command, argument) ==
    last_index({i \in DOMAIN command.options :
                   /\ command.options[i].option.long # None
                   /\ command.options[i].option.long = argument})

commands_index(command, argument) ==
    last_index({i \in DOMAIN command.commands :
                   command.commands[i].name = argument})

is_option(command, argument) ==
    option_shorts(command, argument) # 0 \/ option_longs(command, argument) # 0

is_command(command, argument) == commands_index(command, argument) # 0

\* the first option, in registration order, whose matches() accepts argument
first_match(command, argument) ==
    LET hits == {i \in DOMAIN command.options :
                     matches(command.options[i].option, argument).matched}
    IN IF hits = {} THEN 0 ELSE CHOOSE i \in hits : \A j \in hits : i <= j

NoMatch == [run |-> FALSE, command |-> 0, option |-> 0]
MatchCommand(c) == [run |-> TRUE, command |-> c, option |-> 0]
MatchOption(i) == [run |-> FALSE, command |-> 0, option |-> i]

\* get_match: [exc, name, match, modified]
Matched(name, match, modified) ==
    [exc |-> "", name |-> name, match |-> match, modified |-> modified]

get_match(command, argument) ==
    IF is_command(command, argument) THEN
        Matched(argument,
                MatchCommand(command.commands[commands_index(command, argument)].command),
                <<>>)
    ELSE IF option_longs(command, argument) # 0 THEN
        LET i == option_longs(command, argument)
        IN Matched(command.options[i].identifier, MatchOption(i), <<>>)
    ELSE IF option_shorts(command, argument) # 0 THEN
        LET i == option_shorts(command, argument)
        IN Matched(command.options[i].identifier, MatchOption(i), <<>>)
    ELSE IF first_match(command, argument) # 0 THEN
        LET i == first_match(command, argument)
        IN Matched(command.options[i].identifier, MatchOption(i),
                   matches(command.options[i].option, argument).modified)
    ELSE [exc |-> "UnexpectedArgument", name |-> argument,
          match |-> NoMatch, modified |-> argument]

(***************************************************************************)
(* Positional.parse                                                        *)
(* Every parse returns [exc, v, a]: the exception raised or "", the value, *)
(* and the Arguments object as the call left it.                           *)
(***************************************************************************)
Digits == <<"0", "1", "2", "3", "4", "5", "6", "7", "8", "9">>

\* ConverterBase.convert with type = int, on one-digit tokens
convert(type, argument) ==
    IF type = "Integer" THEN
        IF Len(argument) = 1 /\ \E d \in DOMAIN Digits : Digits[d] = argument[1]
        THEN Ok(IntV((CHOOSE d \in DOMAIN Digits : Digits[d] = argument[1]) - 1))
        ELSE Raise("UserTypeError")
    ELSE Ok(StrV(argument))

\* get_next_argument once next(arguments) gave n
checked_argument(command, n) ==
    IF n.stop THEN [exc |-> "ArgumentMissing", v |-> None, a |-> n.a]
    ELSE IF is_option(command, n.argument)
         THEN [exc |-> "ArgumentMissing", v |-> None, a |-> n.a]
    ELSE [exc |-> "", v |-> n.argument, a |-> n.a]

get_next_argument(command, a) == checked_argument(command, Arguments_next(a))

\* list(arguments) / list(map(self.convert, arguments))
converted(c, a) == [exc |-> c.exc, v |-> c.v, a |-> a]

RECURSIVE parse_remaining(_, _, _)
RECURSIVE parse_remaining_step(_, _, _, _)
parse_remaining_step(type, n, c, acc) ==
    IF c.exc # "" THEN [exc |-> c.exc, v |-> NoneV, a |-> n.a]
    ELSE parse_remaining(type, n.a, Append(acc, c.v))

parse_remaining_next(type, n, acc) ==
    IF n.stop THEN [exc |-> "", v |-> ListV(acc), a |-> n.a]
    ELSE parse_remaining_step(type, n, convert(type, n.argument), acc)

parse_remaining(type, a, acc) == parse_remaining_next(type, Arguments_next(a), acc)

\* parse of a specification that takes one token, once get_next_argument gave g
parse_single(positional, g) ==
    IF g.exc # "" THEN
        [exc |-> IF positional.optional THEN "EndOptionParsing" ELSE g.exc,
         v |-> NoneV, a |-> g.a]
    ELSE converted(convert(positional.type, g.v), g.a)

Positional_parse(command, positional, a) ==
    IF positional.remaining THEN parse_remaining(positional.type, a, <<>>)
    ELSE parse_single(positional, get_next_argument(command, a))

\* a parse_as_positional that appends the parsed value, a list included
extend_result_append(positional, result, parsed) ==
    [exc |-> parsed.exc,
     result |-> IF parsed.exc # "" THEN result ELSE Append(result, parsed.v),
     a |-> parsed.a]

\* parse_as_positional once self.parse gave parsed: [exc, result, a]
extend_result(positional, result, parsed) ==
    [exc |-> parsed.exc,
     result |-> IF parsed.exc # "" THEN result
                ELSE IF positional.remaining THEN result \o parsed.v.v
                ELSE Append(result, parsed.v),
     a |-> parsed.a]

parse_as_positional(command, positional, result, a) ==
    extend_result(positional, result, Positional_parse(command, positional, a))

(***************************************************************************)
(* Option.parse                                                            *)
(***************************************************************************)
EmptyDict == [x \in {} |-> NoneV]

dict_get(namespace, name) ==
    IF name \in DOMAIN namespace THEN namespace[name] ELSE NoneV

dict_set(namespace, name, value) ==
    [x \in DOMAIN namespace \cup {name} |->
        IF x = name THEN value ELSE namespace[x]]

\* the for loop over self.positionals: [exc, result, a]
RECURSIVE parse_chain(_, _, _, _, _)
parse_chain_step(command, positionals, i, result, parsed) ==
    IF parsed.exc = "EndOptionParsing"
    THEN [exc |-> "", result |-> result, a |-> parsed.a]
    ELSE IF parsed.exc # ""
    THEN [exc |-> parsed.exc, result |-> result, a |-> parsed.a]
    ELSE parse_chain(command, positionals, i + 1, Append(result, parsed.v), parsed.a)

parse_chain(command, positionals, i, result, a) ==
    IF i > Len(positionals) THEN [exc |-> "", result |-> result, a |-> a]
    ELSE parse_chain_step(command, positionals, i, result,
                          Positional_parse(command, positionals[i], a))

\* `namespace[name] = self.action(namespace.get(name), result)`
store_result(namespace, name, a, result, stored) ==
    IF stored.exc # "" THEN
        [exc |-> stored.exc, namespace |-> namespace, a |-> a, result |-> result]
    ELSE [exc |-> "", namespace |-> dict_set(namespace, name, stored.v),
          a |-> a, result |-> result]

\* `result = result if len(self.positionals) > 1 else result[0]`, then the action
combine_result(option, namespace, namespace_none, name, a, result) ==
    IF namespace_none THEN
        [exc |-> "AttributeError", namespace |-> namespace, a |-> a,
         result |-> result]
    ELSE store_result(namespace, name, a, result,
                      apply_action(option.action, dict_get(namespace, name), result))

\* a chain result that is always the first value, whatever the chain's length
chain_result_bare(option, namespace, namespace_none, name, chain) ==
    IF chain.exc # "" THEN
        [exc |-> chain.exc, namespace |-> namespace, a |-> chain.a,
         result |-> NoneV]
    ELSE combine_result(option, namespace, namespace_none, name, chain.a,
                        chain.result[1])

chain_result(option, namespace, namespace_none, name, chain) ==
    IF chain.exc # "" THEN
        [exc |-> chain.exc, namespace |-> namespace, a |-> chain.a,
         result |-> NoneV]
    ELSE IF Len(option.positionals) > 1 THEN
        combine_result(option, namespace, namespace_none, name, chain.a,
                       ListV(chain.result))
    ELSE IF chain.result = <<>> THEN
        [exc |-> "IndexError", namespace |-> namespace, a |-> chain.a,
         result |-> NoneV]
    ELSE combine_result(option, namespace, namespace_none, name, chain.a,
                        chain.result[1])

\* Option.parse: [exc, namespace, a, result]; namespace_none is kwargs = None
Option_parse(command, option, namespace, namespace_none, name, a) ==
    chain_result(option, namespace, namespace_none, name,
                 parse_chain(command, option.positionals, 1, <<>>, a))


(***************************************************************************)
(* Command trees and the inputs they are dispatched on.                     *)
(***************************************************************************)
t_a == <<"-", "a">>
t_b == <<"-", "b">>
t_h == <<"-", "h">>
t_u == <<"-", "u">>
t_ab == <<"-", "a", "b">>
t_aab == <<"-", "a", "a", "b">>
t_ah == <<"-", "a", "h">>
t_x == <<"x">>
t_y == <<"y">>
t_1 == <<"1">>
t_sub == <<"s", "u", "b">>
t_leaf == <<"l", "e", "a", "f">>

id_help == <<"_", "_", "a", "w", "w", "p", "a", "r", "s", "e", "_", "h", "e", "l", "p">>
id_foo == <<"f", "o", "o">>
id_bar == <<"b", "a", "r">>

String == P(Positional("NativeString", FALSE, FALSE))
Integer == P(Positional("Integer", FALSE, FALSE))
Remaining == P(Positional("NativeString", FALSE, TRUE))

\* Command.__init__: the help option is registered first
Command(options, commands, positionals, main) ==
    [options |-> <<[option |-> HelpOption, identifier |-> id_help]>> \o options,
     commands |-> commands,
     positionals |-> parse_positional_signature(positionals, TRUE),
     main |-> main]

Registered(identifier, option) == [option |-> option, identifier |-> identifier]
Child(name, command) == [name |-> name, command |-> command]

\* -a takes one value and replaces, -b takes [mandatory, optional] and appends
Bundling ==
    [tree |-> <<Command(<<Registered(id_foo, Option(t_a, None, <<String>>, "store_last")),
                          Registered(id_bar, Option(t_b, None, <<String, G(<<String>>)>>,
                                                    "append_to_list"))>>,
                        <<>>, <<>>, "own")>>,
     tokens |-> {t_a, t_b, t_ab, t_x, t_y}]

\* -a and -b take one value each; -a replaces, -b appends
Abbreviations ==
    [tree |-> <<Command(<<Registered(id_foo, Option(t_a, None, <<String>>, "store_last")),
                          Registered(id_bar, Option(t_b, None, <<String>>,
                                                    "append_to_list"))>>,
                        <<>>, <<>>, "own")>>,
     tokens |-> {t_a, t_b, t_ab, t_aab, t_x, t_y}]

\* a root without main, its child without main, and a leaf with a main
Subcommands ==
    [tree |-> <<Command(<<Registered(id_foo, Option(t_a, None, <<String>>, "store_last"))>>,
                        <<Child(t_sub, 2)>>, <<String>>, "default"),
                Command(<<Registered(id_bar, Option(t_b, None, <<String>>, "append_to_list"))>>,
                        <<Child(t_leaf, 3)>>, <<>>, "default"),
                Command(<<>>, <<>>, <<G(<<String>>)>>, "own")>>,
     tokens |-> {t_sub, t_leaf, t_a, t_b, t_x}]

\* positionals declared as (A, [B, C])
Positionals ==
    [tree |-> <<Command(<<Registered(id_foo, Option(t_a, None, <<Integer>>, "add"))>>,
                        <<>>, <<String, G(<<String, String>>)>>, "own")>>,
     tokens |-> {t_x, t_y, t_a, t_1, t_u}]

\* a remaining option operand and a remaining positional, and the help option
Variadic ==
    [tree |-> <<Command(<<Registered(id_foo, Option(t_a, None, <<String>>, "store_last")),
                          Registered(id_bar, Option(t_b, None, <<Remaining>>, "store_last"))>>,
                        <<>>, <<Remaining>>, "own")>>,
     tokens |-> {t_a, t_b, t_x, t_h, t_ah}]

Scenarios == {Bundling, Abbreviations, Subcommands, Positionals, Variadic}

RECURSIVE SeqsUpTo(_, _)
SeqsUpTo(S, n) ==
    IF n = 0 THEN {<<>>}
    ELSE LET shorter == SeqsUpTo(S, n - 1)
         IN shorter \cup {Append(q, x) : q \in shorter, x \in S}

\* the root is a plain Command or a CLI with streams and an exit hook
Flavours ==
    {[kind |-> "Command", passthrough_errors |-> p, exit_returns |-> FALSE] :
        p \in BOOLEAN}
    \cup {[kind |-> "CLI", passthrough_errors |-> p, exit_returns |-> r] :
        p \in BOOLEAN, r \in BOOLEAN}

application_name == <<"a", "p", "p">>

(***************************************************************************)
(* Command.run as a state machine.                                         *)
(***************************************************************************)
\* __init__.py imports PositionalArgumentMissing from exceptions.py, which does
\* not define it: it is taken to be a CLIError like the errors beside it
UndefinedCLIError == {"PositionalArgumentMissing"}

CLIError == {"UnexpectedArgument", "ArgumentMissing", "UserTypeError",
             "CommandMissing"} \cup UndefinedCLIError

MainV(command, args, kwargs) ==
    [t |-> "main", command |-> command, args |-> args, kwargs |-> kwargs]

\* the locals of one run call
Frame(command, default_args, default_kwargs, passthrough_errors) ==
    [command |-> command, passthrough_errors |-> passthrough_errors,
     expected_positionals |-> 1, args |-> default_args, kwargs |-> default_kwargs,
     kwargs_none |-> FALSE, pc |-> "for", name |-> <<>>, match |-> NoMatch,
     modified |-> <<>>, previous_modified |-> <<>>,
     exc |-> "", in_try |-> FALSE, retval |-> NoneV]

Running == [kind |-> "running"]
Returned(v) == [kind |-> "returned", v |-> v]
Raised(exc) == [kind |-> "raised", exc |-> exc]

NoPure == [f |-> "run"]

Init ==
    /\ \E s \in Scenarios, fl \in Flavours :
        /\ tree = s.tree
        /\ cli = fl
        /\ \E input \in SeqsUpTo(s.tokens, MaxArgs) :
               arguments = IF fl.kind = "CLI"
                           THEN ArgumentsCLI(input, application_name)
                           ELSE Arguments(input)
        /\ stack = <<Frame(1, <<>>, EmptyDict, fl.passthrough_errors)>>
    /\ outcome = Running
    /\ log = <<>>
    /\ pure = NoPure

top == stack[Len(stack)]
depth == Len(stack)
set_top(frame) == [stack EXCEPT ![Len(stack)] = frame]
raise(frame, exc, in_try) ==
    [frame EXCEPT !.pc = "raise", !.exc = exc, !.in_try = in_try]

\* self.stdout / self.stderr / self.exit resolve through the parents to a CLI
has_streams == cli.kind = "CLI"

\* the check after the for loop: next(expected_positionals) is not optional
positional_missing(command, expected) ==
    /\ expected <= Len(command.positionals)
    /\ ~command.positionals[expected].optional

exhausted(missing) ==
    /\ stack' = set_top(
           IF missing THEN raise(top, "PositionalArgumentMissing", TRUE)
           ELSE [top EXCEPT !.pc = "main"])
    /\ log' = Append(log, [e |-> "exhausted", depth |-> depth,
                           command |-> top.command,
                           expected |-> top.expected_positionals,
                           missing |-> missing])

\* the for loop ends: the missing-positional check, then main
Run_exhausted ==
    /\ outcome = Running
    /\ top.pc = "for"
    /\ Arguments_next(arguments).stop
    /\ exhausted(positional_missing(tree[top.command], top.expected_positionals))
    /\ UNCHANGED <<tree, cli, arguments, outcome, pure>>

\* the loop condition `modified != previous_modified`
while_pc(modified, previous_modified) ==
    IF modified # previous_modified THEN "while" ELSE "for"

\* get_match succeeded on the token n.argument
matched_token(n, m) ==
    /\ arguments' = n.a
    /\ stack' = set_top([top EXCEPT
           !.name = m.name, !.match = m.match, !.modified = m.modified,
           !.previous_modified = n.argument,
           !.pc = while_pc(m.modified, n.argument)])
    /\ log' = Append(log, [e |-> "token", depth |-> depth,
                           command |-> top.command, argument |-> n.argument,
                           match |-> m.match])

\* the positional with index i parsed the rewound token: args = parsed.result
positional_parsed(n, i, parsed) ==
    /\ arguments' = parsed.a
    /\ stack' = set_top(
           IF parsed.exc # ""
           THEN raise([top EXCEPT !.expected_positionals = i + 1], parsed.exc, TRUE)
           ELSE [top EXCEPT !.expected_positionals = i + 1, !.args = parsed.result])
    /\ log' = Append(log, [e |-> "positional", depth |-> depth,
                           command |-> top.command, argument |-> n.argument,
                           index |-> i, exc |-> parsed.exc,
                           result |-> parsed.result,
                           next |-> n.a, rewound |-> Arguments_rewind(n.a)])

\* next(expected_positionals) raised StopIteration: UnexpectedArgument is reraised
reraise_unexpected(n) ==
    /\ arguments' = n.a
    /\ stack' = set_top(raise(top, "UnexpectedArgument", TRUE))
    /\ log' = Append(log, [e |-> "unexpected", depth |-> depth,
                           command |-> top.command, argument |-> n.argument])

\* the body of the for loop for the token n.argument, get_match having given m
for_body(command, n, m) ==
    IF m.exc = "" THEN matched_token(n, m)
    ELSE IF top.expected_positionals > Len(command.positionals)
    THEN reraise_unexpected(n)
    ELSE positional_parsed(n, top.expected_positionals,
             parse_as_positional(command,
                                 command.positionals[top.expected_positionals],
                                 top.args, Arguments_rewind(n.a)))

for_token(command, n) == for_body(command, n, get_match(command, n.argument))

\* what the token pulled by the for loop resolves to
token_kind(command, n) ==
    IF n.stop THEN "StopIteration"
    ELSE IF get_match(command, n.argument).exc = "" THEN "match"
    ELSE IF top.expected_positionals > Len(command.positionals) THEN "unexpected"
    ELSE "positional"

\* a token that get_match resolves to a command or an option
Run_match ==
    /\ outcome = Running
    /\ top.pc = "for"
    /\ token_kind(tree[top.command], Arguments_next(arguments)) = "match"
    /\ for_token(tree[top.command], Arguments_next(arguments))
    /\ UNCHANGED <<tree, cli, outcome, pure>>

\* a token nothing matches, with a positional left: rewind and let it parse
Run_positional ==
    /\ outcome = Running
    /\ top.pc = "for"
    /\ token_kind(tree[top.command], Arguments_next(arguments)) = "positional"
    /\ for_token(tree[top.command], Arguments_next(arguments))
    /\ UNCHANGED <<tree, cli, outcome, pure>>

\* a token nothing matches, with every positional used
Run_unexpected ==
    /\ outcome = Running
    /\ top.pc = "for"
    /\ token_kind(tree[top.command], Arguments_next(arguments)) = "unexpected"
    /\ for_token(tree[top.command], Arguments_next(arguments))
    /\ UNCHANGED <<tree, cli, outcome, pure>>

\* a child that starts without the values of its parent
delegated_fresh(frame) == Frame(frame.match.command, <<>>, EmptyDict, FALSE)

\* the run call of the child: match.run(arguments, args, kwargs)
delegated(frame) ==
    Frame(frame.match.command, frame.args,
          IF frame.kwargs_none THEN EmptyDict ELSE frame.kwargs, FALSE)

\* the token names a child command: open a trace frame and run the child
Run_delegate ==
    /\ outcome = Running
    /\ top.pc = "while"
    /\ top.match.run
    /\ arguments' = [arguments EXCEPT !.trace = Append(@, <<>>)]
    /\ stack' = Append(set_top([top EXCEPT !.pc = "called"]), delegated(top))
    /\ log' = Append(log, [e |-> "delegate", depth |-> depth,
                           command |-> top.command, child |-> top.match.command,
                           args |-> top.args, kwargs |-> top.kwargs,
                           kwargs_none |-> top.kwargs_none])
    /\ UNCHANGED <<tree, cli, outcome, pure>>

\* the rest of one iteration of the while loop, after match.parse returned:
\* `name, option, modified = self.get_match(modified)` leaves match as it was
rematched(frame, m) ==
    IF m.exc # ""
    THEN raise([frame EXCEPT !.previous_modified = frame.modified], m.exc, TRUE)
    ELSE [frame EXCEPT !.previous_modified = frame.modified,
                       !.name = m.name, !.modified = m.modified,
                       !.pc = while_pc(m.modified, frame.modified)]

after_parse(command, frame) ==
    IF frame.modified = <<>>
    THEN [frame EXCEPT !.previous_modified = frame.modified, !.pc = "for"]
    ELSE rematched(frame, get_match(command, frame.modified))

\* the option object the local `match` is bound to
matched_option(frame) == tree[frame.command].options[frame.match.option].option

\* `kwargs = match.parse(self, kwargs, name, arguments)` gave parsed
option_parsed(command, parsed) ==
    /\ arguments' = parsed.a
    /\ stack' = set_top(
           IF parsed.exc # "" THEN raise(top, parsed.exc, TRUE)
           ELSE after_parse(command, [top EXCEPT !.kwargs = parsed.namespace]))
    /\ log' = Append(log, [e |-> "parse", depth |-> depth,
                           command |-> top.command, name |-> top.name,
                           option |-> top.match.option,
                           residual |-> top.modified,
                           exc |-> parsed.exc, result |-> parsed.result,
                           before |-> arguments])

\* one iteration of the while loop for an option: match.parse, then get_match
Run_parse ==
    /\ outcome = Running
    /\ top.pc = "while"
    /\ ~top.match.run
    /\ ~matched_option(top).help
    /\ option_parsed(tree[top.command],
                     Option_parse(tree[top.command], matched_option(top),
                                  top.kwargs, top.kwargs_none, top.name, arguments))
    /\ UNCHANGED <<tree, cli, outcome, pure>>

\* HelpOption.parse: print_help, then exit(); a hook that returns leaves
\* kwargs = None behind
Run_help ==
    /\ outcome = Running
    /\ top.pc = "while"
    /\ ~top.match.run
    /\ matched_option(top).help
    /\ IF ~has_streams THEN
           /\ stack' = set_top(raise(top, "AttributeError", TRUE))
           /\ log' = log
       ELSE
           /\ stack' = set_top(
                  IF cli.exit_returns
                  THEN after_parse(tree[top.command], [top EXCEPT !.kwargs_none = TRUE])
                  ELSE raise(top, "SystemExit", TRUE))
           /\ log' = log \o <<[e |-> "print_help", depth |-> depth,
                               command |-> top.command, name |-> top.name],
                              [e |-> "exit", depth |-> depth,
                               command |-> top.command, code |-> "None"]>>
    /\ UNCHANGED <<tree, cli, arguments, outcome, pure>>

\* `return self.main(*args, **kwargs)` with a main the application defined
Run_main ==
    /\ outcome = Running
    /\ top.pc = "main"
    /\ tree[top.command].main = "own"
    /\ IF top.kwargs_none THEN
           /\ stack' = set_top(raise(top, "TypeError", FALSE))
           /\ log' = log
       ELSE
           /\ stack' = set_top([top EXCEPT !.pc = "return",
                  !.retval = MainV(top.command, top.args, top.kwargs)])
           /\ log' = Append(log, [e |-> "main", depth |-> depth,
                                  command |-> top.command, args |-> top.args,
                                  kwargs |-> top.kwargs])
    /\ UNCHANGED <<tree, cli, arguments, outcome, pure>>

\* handle_error: print the error and the help, then exit(exit_code)
\* exc_value.exit_code: no class of exceptions.py defines it; a usage-error
\* status, which is not the None that HelpOption.parse calls exit() with
exit_code == "exit_code"

handle_error_log(frame, exc) ==
    <<[e |-> "print_error", depth |-> depth, command |-> frame.command, exc |-> exc],
      [e |-> "print_help", depth |-> depth, command |-> frame.command, name |-> <<>>],
      [e |-> "exit", depth |-> depth, command |-> frame.command, code |-> exit_code]>>

\* `if self.commands:` with the children never seen
has_commands_never(command) == FALSE

\* `if self.commands:`
has_commands(command) == command.commands # <<>>

\* Command.main: CommandMissing for a command with children
Command_main ==
    /\ outcome = Running
    /\ top.pc = "main"
    /\ tree[top.command].main = "default"
    /\ IF top.kwargs_none THEN
           /\ stack' = set_top(raise(top, "TypeError", FALSE))
           /\ log' = log
       ELSE IF ~has_commands(tree[top.command]) THEN
           /\ stack' = set_top(raise(top, "NotImplementedError", FALSE))
           /\ log' = log
       ELSE IF ~has_streams THEN
           /\ stack' = set_top(raise(top, "CommandMissing", FALSE))
           /\ log' = Append(log, [e |-> "command_missing", depth |-> depth,
                                  command |-> top.command])
       ELSE
           /\ stack' = set_top(
                  IF cli.exit_returns
                  THEN [top EXCEPT !.pc = "return", !.retval = NoneV]
                  ELSE raise(top, "SystemExit", FALSE))
           /\ log' = Append(log, [e |-> "command_missing", depth |-> depth,
                                  command |-> top.command])
                     \o handle_error_log(top, "CommandMissing")
    /\ UNCHANGED <<tree, cli, arguments, outcome, pure>>

\* a caller of match.run that goes on with its own for loop
after_run_resume(frame, retval) == [frame EXCEPT !.pc = "for"]

\* what the caller of match.run does once the child returned: `return`
after_run(frame, retval) == [frame EXCEPT !.pc = "return", !.retval = NoneV]

\* a run call returns to its caller
Return ==
    /\ outcome = Running
    /\ top.pc = "return"
    /\ IF depth = 1 THEN
           /\ outcome' = Returned(top.retval)
           /\ stack' = <<>>
       ELSE
           /\ outcome' = outcome
           /\ stack' = [SubSeq(stack, 1, depth - 1) EXCEPT
                            ![depth - 1] = after_run(@, top.retval)]
    /\ log' = Append(log, [e |-> "return", depth |-> depth,
                           command |-> top.command, retval |-> top.retval])
    /\ UNCHANGED <<tree, cli, arguments, pure>>

\* `except CLIError` catches it and passthrough_errors is not set
handled(frame) ==
    frame.exc \in CLIError /\ frame.in_try /\ ~frame.passthrough_errors

\* `except CLIError: self.handle_error(...); assert False`
Handle_error ==
    /\ outcome = Running
    /\ top.pc = "raise"
    /\ handled(top)
    /\ IF ~has_streams THEN
           /\ stack' = set_top([top EXCEPT !.in_try = FALSE])
           /\ log' = log
       ELSE
           /\ stack' = set_top(
                  IF cli.exit_returns THEN raise(top, "AssertionError", FALSE)
                  ELSE raise(top, "SystemExit", FALSE))
           /\ log' = log \o handle_error_log(top, top.exc)
    /\ UNCHANGED <<tree, cli, arguments, outcome, pure>>

\* an exception leaves a run call: the caller has it inside its try block
Propagate ==
    /\ outcome = Running
    /\ top.pc = "raise"
    /\ ~handled(top)
    /\ IF depth = 1 THEN
           /\ outcome' = Raised(top.exc)
           /\ stack' = <<>>
       ELSE
           /\ outcome' = outcome
           /\ stack' = [SubSeq(stack, 1, depth - 1) EXCEPT
                            ![depth - 1] = raise(@, top.exc, TRUE)]
    /\ log' = Append(log, [e |-> "raise", depth |-> depth,
                           command |-> top.command, exc |-> top.exc])
    /\ UNCHANGED <<tree, cli, arguments, pure>>

Next ==
    \/ Run_exhausted
    \/ Run_match
    \/ Run_positional
    \/ Run_unexpected
    \/ Run_delegate
    \/ Run_parse
    \/ Run_help
    \/ Run_main
    \/ Command_main
    \/ Return
    \/ Handle_error
    \/ Propagate

Spec == Init /\ [][Next]_vars

(***************************************************************************)
(* Option.matches as a pure function: every option the constructor accepts *)
(* over a small alphabet, against every token of up to MaxToken characters.*)
(***************************************************************************)
Alphabet == {"-", "+", "a", "b"}

Tokens == SeqsUpTo(Alphabet, MaxToken)

Shorts == {None} \cup {<<c, d>> : c \in Alphabet, d \in Alphabet}

Longs == {None, <<"-", "-", "a", "b">>, <<"-", "a">>}

\* _parse_signature: a lone string of two characters is the short form
accepted(short, long) ==
    /\ ~(short = None /\ long = None)
    /\ short = None => Len(long) # 2

NotRun == [kind |-> "pure"]

InitMatches ==
    /\ tree = <<>>
    /\ cli = [kind |-> "Command", passthrough_errors |-> TRUE, exit_returns |-> FALSE]
    /\ arguments = Arguments(<<>>)
    /\ stack = <<>>
    /\ outcome = NotRun
    /\ log = <<>>
    /\ \E short \in Shorts, long \in Longs, argument \in Tokens :
        /\ accepted(short, long)
        /\ pure = [f |-> "matches", called |-> FALSE,
                   option |-> Option(short, long, <<String>>, "store_last"),
                   argument |-> argument,
                   result |-> [matched |-> FALSE, modified |-> <<>>]]

\* option.matches(argument)
Matches_call ==
    /\ pure.f = "matches"
    /\ ~pure.called
    /\ pure' = [pure EXCEPT !.called = TRUE,
                            !.result = matches(pure.option, pure.argument)]
    /\ UNCHANGED <<tree, cli, arguments, stack, outcome, log>>

NextMatches == Matches_call

SpecMatches == InitMatches /\ [][NextMatches]_vars

(***************************************************************************)
(* The accumulation actions as a fold: the values of the occurrences of    *)
(* one option, combined one after the other from no previous value.        *)
(***************************************************************************)
FoldActions == {"store_last", "append_to_list", "add_to_set", "add", "sub"}

FoldValues == {IntV(n) : n \in (0 - MaxInt) .. MaxInt}

InitFold ==
    /\ tree = <<>>
    /\ cli = [kind |-> "Command", passthrough_errors |-> TRUE, exit_returns |-> FALSE]
    /\ arguments = Arguments(<<>>)
    /\ stack = <<>>
    /\ outcome = NotRun
    /\ log = <<>>
    /\ \E action \in FoldActions, values \in SeqsUpTo(FoldValues, MaxFold) :
        pure = [f |-> "fold", action |-> action, values |-> values,
                i |-> 0, exc |-> "", acc |-> NoneV]

\* `namespace[name] = self.action(namespace.get(name), result)` for the next value
folded(stored) ==
    pure' = [pure EXCEPT !.i = @ + 1, !.exc = stored.exc,
                         !.acc = IF stored.exc = "" THEN stored.v ELSE @]

Fold_step ==
    /\ pure.f = "fold"
    /\ pure.exc = ""
    /\ pure.i < Len(pure.values)
    /\ folded(apply_action(pure.action, pure.acc, pure.values[pure.i + 1]))
    /\ UNCHANGED <<tree, cli, arguments, stack, outcome, log>>

NextFold == Fold_step

SpecFold == InitFold /\ [][NextFold]_vars

(***************************************************************************)
(* Observations of a dispatch, read off the log.                           *)
(***************************************************************************)
Events(kind) == {i \in DOMAIN log : log[i].e = kind}

Finished == outcome # Running

\* the dispatch failed with exc: raised to the caller, or printed before exit
FailedWith(exc) ==
    \/ outcome = Raised(exc)
    \/ \E i \in Events("print_error") : log[i].exc = exc

\* the option registered under the identifier name
option_named(command, name) ==
    command.options[last_index({i \in DOMAIN command.options :
                                   command.options[i].identifier = name})].option

\* the results of the successful parses stored under name at depth d before event i
occurrences(name, d, i) ==
    LET parses == SelectSeq(SubSeq(log, 1, i),
                            LAMBDA ev : ev.e = "parse" /\ ev.depth = d
                                        /\ ev.name = name /\ ev.exc = "")
    IN [n \in DOMAIN parses |-> parses[n].result]

\* the characters of a bundle after its prefix character
letters(bundle) == Tail(bundle)

RECURSIVE Sum(_)
Sum(values) == IF values = <<>> THEN 0 ELSE Head(values).v + Sum(Tail(values))

\* the input the dispatch was started on
Input ==
    LET flat[k \in 0 .. Len(arguments.trace)] ==
            IF k = 0 THEN <<>> ELSE flat[k - 1] \o arguments.trace[k]
        consumed == flat[Len(arguments.trace)]
    IN (IF cli.kind = "CLI" THEN Tail(consumed) ELSE consumed)
       \o Arguments_pending(arguments)

(***************************************************************************)
(* C1: every option resolved from a token parses with its own positional   *)
(* chain and combines with its own action: the option object used for a    *)
(* parse has the chain and the action of the option registered under the   *)
(* identifier the result is stored under.                                  *)
(***************************************************************************)
C1_OwnChainAndAction ==
    \A i \in Events("parse") :
        LET used == tree[log[i].command].options[log[i].option].option
            own == option_named(tree[log[i].command], log[i].name)
        IN used.positionals = own.positionals /\ used.action = own.action

(***************************************************************************)
(* C2: with -a and -b taking one operand each, a dispatch of               *)
(* [bundle, v1, ..., vn], the bundle being a prefix and n option letters,  *)
(* makes exactly n parses, the i-th stored under the i-th letter's         *)
(* identifier with the value vi, and ends with main.                       *)
(***************************************************************************)
BundleInput ==
    /\ tree = Abbreviations.tree
    /\ Input # <<>>
    /\ Head(Input) \in {t_ab, t_aab}
    /\ Len(Input) = Len(Head(Input))
    /\ \A k \in 2 .. Len(Input) : Input[k] \in {t_x, t_y}

C2_BundleResolvesEachLetter ==
    Finished /\ BundleInput =>
        LET parses == SelectSeq(log, LAMBDA ev : ev.e = "parse")
            bundle == letters(Head(Input))
        IN /\ Len(parses) = Len(bundle)
           /\ \A k \in DOMAIN parses :
                /\ parses[k].exc = ""
                /\ parses[k].name = (IF bundle[k] = "a" THEN id_foo ELSE id_bar)
                /\ parses[k].result = StrV(Input[k + 1])
           /\ Events("main") # {}

(***************************************************************************)
(* C3: matches returns (True, "") for the long form; for a token that      *)
(* starts with the short form (a prefix character and a letter) it returns *)
(* (True, residual), the residual being the prefix and the token's         *)
(* characters with exactly one occurrence of the short letter removed,     *)
(* empty when nothing is left; otherwise (False, token).                   *)
(***************************************************************************)
C3_MatchesStripsOne ==
    pure.f = "matches" /\ pure.called
    /\ (pure.option.short # None =>
            /\ pure.option.short[1] \in prefix_chars
            /\ pure.option.short[2] \notin prefix_chars)
    => LET short == pure.option.short
           argument == pure.argument
           rest == SubSeq(argument, 3, Len(argument))
       IN IF argument = pure.option.long
          THEN pure.result = [matched |-> TRUE, modified |-> <<>>]
          ELSE IF short # None /\ startswith(argument, short)
          THEN pure.result =
                   [matched |-> TRUE,
                    modified |-> IF rest = <<>> THEN <<>>
                                 ELSE get_prefix(short) \o rest]
          ELSE pure.result = [matched |-> FALSE, modified |-> argument]

(***************************************************************************)
(* C4: a run that delegated to a child returns to its caller the value the *)
(* child's run returned.                                                   *)
(***************************************************************************)
C4_ReturnsChildResult ==
    \A i \in Events("return") : \A j \in Events("return") :
        j > i /\ log[j].depth = log[i].depth - 1 => log[j].retval = log[i].retval

(***************************************************************************)
(* C5: once a run has delegated to a child it does nothing more than       *)
(* return or let an exception through: no token, no missing-positional     *)
(* check, no main, no second delegation at its depth or above; everything  *)
(* that follows happens in the child's dispatch.                           *)
(***************************************************************************)
C5_ParentNeverResumes ==
    \A i \in Events("delegate") : \A j \in DOMAIN log :
        j > i /\ log[j].depth <= log[i].depth => log[j].e \in {"return", "raise"}

C5_Witness ==
    /\ outcome.kind = "returned"
    /\ \E i \in Events("delegate") : \E j \in Events("positional") :
        j > i /\ log[j].depth > log[i].depth
    /\ Arguments_pending(arguments) = <<>>

(***************************************************************************)
(* C6 as stated: a command with a child and no main of its own whose for   *)
(* loop reaches the end of the input without delegating fails with         *)
(* CommandMissing.                                                         *)
(***************************************************************************)
ChildrenNoMain(c) == tree[c].commands # <<>> /\ tree[c].main = "default"

C6_ExhaustedIsCommandMissing ==
    Finished =>
        \A i \in Events("exhausted") :
            ChildrenNoMain(log[i].command) => FailedWith("CommandMissing")

(***************************************************************************)
(* C6, amended: a command with a child and no main of its own whose for    *)
(* loop reaches the end of the input without delegating, whose next        *)
(* unreceived positional (if any) is optional, and whose dispatch has not  *)
(* already called the exit hook for the help option, fails with            *)
(* CommandMissing: it is the next thing that happens, the dispatch ends    *)
(* as a CommandMissing failure, and no main is invoked.                    *)
(***************************************************************************)
C6_CommandMissing ==
    \A i \in Events("exhausted") :
        /\ ChildrenNoMain(log[i].command)
        /\ ~log[i].missing
        /\ \A j \in Events("exit") : j > i
        => /\ i < Len(log) =>
                log[i + 1].e = "command_missing" /\ log[i + 1].depth = log[i].depth
           /\ Events("main") = {}
           /\ Finished => FailedWith("CommandMissing")

C6_Witness ==
    /\ outcome = Raised("CommandMissing")
    /\ \E i \in Events("exhausted") : ChildrenNoMain(log[i].command) /\ log[i].depth = 2
    /\ Events("positional") # {}

(***************************************************************************)
(* C7: a token the for loop pulls that names no child and matches no       *)
(* option goes to the next unsatisfied positional in declared order, which *)
(* consumes that very token; with every declared positional used the       *)
(* dispatch fails with UnexpectedArgument and main is not invoked.         *)
(***************************************************************************)
positionals_before(d, i) ==
    Cardinality({j \in Events("positional") : j < i /\ log[j].depth = d})

C7_PositionalFallback ==
    /\ \A i \in Events("positional") :
        /\ get_match(tree[log[i].command], log[i].argument).exc = "UnexpectedArgument"
        /\ log[i].index = positionals_before(log[i].depth, i) + 1
        /\ log[i].index <= Len(tree[log[i].command].positionals)
        /\ tree[log[i].command].positionals[log[i].index].type = "NativeString" =>
            /\ log[i].exc = ""
            /\ \E k \in DOMAIN log[i].result :
                   log[i].result[k] = StrV(log[i].argument)
    /\ \A i \in Events("unexpected") :
        /\ get_match(tree[log[i].command], log[i].argument).exc = "UnexpectedArgument"
        /\ positionals_before(log[i].depth, i) = Len(tree[log[i].command].positionals)
        /\ Events("main") = {}
        /\ Finished => FailedWith("UnexpectedArgument")

C7_Witness ==
    /\ Finished
    /\ \E i \in Events("positional") : \E j \in Events("unexpected") :
        i < j /\ log[i].depth = log[j].depth /\ log[i].argument # log[j].argument
    /\ FailedWith("UnexpectedArgument")

(***************************************************************************)
(* C8: when the input is exhausted and any declared positional that has    *)
(* received no token is non-optional, the run fails with                   *)
(* PositionalArgumentMissing and main is not invoked.                      *)
(***************************************************************************)
C8_AnyMissingPositionalFails ==
    \A i \in Events("exhausted") :
        (\E k \in DOMAIN tree[log[i].command].positionals :
            k >= log[i].expected /\ ~tree[log[i].command].positionals[k].optional)
        => log[i].missing /\ Events("main") = {}

(***************************************************************************)
(* C9: at main, an option that occurred k >= 1 times with the values       *)
(* v1..vk holds vk under store_last and the list [v1, ..., vk] under       *)
(* append_to_list.                                                         *)
(***************************************************************************)
C9_ReplaceAndAppend ==
    \A i \in Events("main") :
        log[i].depth = 1 =>
            \A k \in DOMAIN tree[1].options :
                LET name == tree[1].options[k].identifier
                    action == option_named(tree[1], name).action
                    values == occurrences(name, 1, i)
                IN values # <<>> =>
                    /\ action = "store_last" =>
                           log[i].kwargs[name] = values[Len(values)]
                    /\ action = "append_to_list" =>
                           log[i].kwargs[name] = ListV(values)

(***************************************************************************)
(* C10: folding the values v1..vk (k >= 1) from no previous value,         *)
(* add_to_set gives the set {v1..vk}, add gives 0 + v1 + ... + vk and sub  *)
(* gives 0 - v1 - ... - vk.                                                *)
(***************************************************************************)
C10_Folds ==
    pure.f = "fold" /\ pure.i >= 1 =>
        LET values == SubSeq(pure.values, 1, pure.i)
        IN /\ pure.exc = ""
           /\ pure.action = "add_to_set" => pure.acc = SetV(Range(values))
           /\ pure.action = "add" => pure.acc = IntV(0 + Sum(values))
           /\ pure.action = "sub" => pure.acc = IntV(0 - Sum(values))

C10_Witness ==
    /\ pure.f = "fold"
    /\ pure.action = "sub"
    /\ pure.i = MaxFold
    /\ pure.acc = IntV(0 - MaxFold * MaxInt)
    /\ pure.values[1] = pure.values[MaxFold]

(***************************************************************************)
(* Observations of one Option.parse call, read off its parse event.        *)
(***************************************************************************)
\* the option object whose parse ran
used_option(ev) == tree[ev.command].options[ev.option].option

\* the tokens next() would still return when the parse began
pending_before(ev) == Arguments_pending(ev.before)

\* a token that starts with a recognized option prefix
option_looking(token) == token # <<>> /\ Head(token) \in prefix_chars

Mandatory == Positional("NativeString", FALSE, FALSE)

Optional == Positional("NativeString", TRUE, FALSE)

(***************************************************************************)
(* C11: an option whose chain is [mandatory, optional], followed by one    *)
(* operand and the end of the input, yields the one-element list [v1];     *)
(* followed by two operands it yields [v1, v2]; an option whose chain has  *)
(* exactly one specification yields the bare value.                        *)
(***************************************************************************)
C11_ChainResult ==
    \A i \in Events("parse") :
        LET chain == used_option(log[i]).positionals
            pending == pending_before(log[i])
        IN /\ chain = <<Mandatory, Optional>> /\ Len(pending) = 1
              /\ ~option_looking(pending[1])
              => log[i].result = ListV(<<StrV(pending[1])>>)
           /\ chain = <<Mandatory, Optional>> /\ Len(pending) >= 2
              /\ ~option_looking(pending[1]) /\ ~option_looking(pending[2])
              => log[i].result = ListV(<<StrV(pending[1]), StrV(pending[2])>>)
           /\ chain = <<Mandatory>> /\ pending # <<>> /\ ~option_looking(pending[1])
              => log[i].result = StrV(pending[1])

C11_Witness ==
    /\ outcome.kind = "returned"
    /\ \E i \in Events("parse") : \E j \in Events("parse") :
        /\ used_option(log[i]).positionals = <<Mandatory, Optional>>
        /\ Len(pending_before(log[i])) = 1
        /\ log[i].result = ListV(<<StrV(t_x)>>)
        /\ used_option(log[j]).positionals = <<Mandatory>>
        /\ log[j].result = StrV(t_y)

\* the values one Option.parse call produced
values_of(result) == IF result.t = "list" THEN Range(result.v) ELSE {result}

(***************************************************************************)
(* C12: a non-remaining specification never returns as its value a token   *)
(* that starts with a recognized option prefix: no value an option's       *)
(* chain of non-remaining specifications produced is option-looking.       *)
(***************************************************************************)
C12_NoOptionLookingValue ==
    \A i \in Events("parse") :
        (\A k \in DOMAIN used_option(log[i]).positionals :
            ~used_option(log[i]).positionals[k].remaining)
        => \A value \in values_of(log[i].result) :
               value.t = "str" => ~option_looking(value.v)

\* the longest prefix of tokens none of which looks like an option
RECURSIVE operands(_)
operands(tokens) ==
    IF tokens = <<>> \/ option_looking(Head(tokens)) THEN <<>>
    ELSE <<StrV(Head(tokens))>> \o operands(Tail(tokens))

(***************************************************************************)
(* C13: a remaining specification in an option's chain stops consuming at  *)
(* the end of the input or at the next token that looks like an option:    *)
(* the option's result is the list of the tokens up to there, and an       *)
(* option token that follows is still matched by the dispatch loop.        *)
(***************************************************************************)
C13_RemainingStopsAtOption ==
    \A i \in Events("parse") :
        used_option(log[i]).positionals = <<Positional("NativeString", FALSE, TRUE)>>
        /\ ~used_option(log[i]).help
        => /\ log[i].result = ListV(operands(pending_before(log[i])))
           /\ Finished /\ Len(operands(pending_before(log[i])))
                              < Len(pending_before(log[i]))
              => \E j \in Events("token") : j > i

\* the chain of a command whose only positional is a remaining specification
sole_remaining(command) ==
    command.positionals = <<Positional("NativeString", FALSE, TRUE)>>

RECURSIVE strings(_)
strings(tokens) ==
    IF tokens = <<>> THEN <<>>
    ELSE <<StrV(Head(tokens))>> \o strings(Tail(tokens))

MaxCursor == 3
MaxCalls == 7

CursorTokens == {t_x, t_y, t_a}

InitArguments ==
    /\ tree = <<>>
    /\ stack = <<>>
    /\ outcome = NotRun
    /\ log = <<>>
    /\ \E original \in SeqsUpTo(CursorTokens, MaxCursor), named \in BOOLEAN :
        /\ cli = [kind |-> IF named THEN "CLI" ELSE "Command",
                  passthrough_errors |-> TRUE, exit_returns |-> FALSE]
        /\ arguments = IF named THEN ArgumentsCLI(original, application_name)
                       ELSE Arguments(original)
        /\ pure = [f |-> "cursor", original |-> original, calls |-> <<>>]

\* arguments.next(); StopIteration leaves the cursor as it was
Cursor_next ==
    /\ pure.f = "cursor"
    /\ Len(pure.calls) < MaxCalls
    /\ arguments' = Arguments_next(arguments).a
    /\ pure' = [pure EXCEPT !.calls = Append(@,
                   [op |-> "next", stop |-> Arguments_next(arguments).stop,
                    argument |-> Arguments_next(arguments).argument,
                    before |-> arguments, after |-> Arguments_next(arguments).a])]
    /\ UNCHANGED <<tree, cli, stack, outcome, log>>

\* arguments.rewind(), called with a consumed token in the current frame
Cursor_rewind ==
    /\ pure.f = "cursor"
    /\ Len(pure.calls) < MaxCalls
    /\ current_frame(arguments) # <<>>
    /\ arguments' = Arguments_rewind(arguments)
    /\ pure' = [pure EXCEPT !.calls = Append(@,
                   [op |-> "rewind", stop |-> FALSE, argument |-> None,
                    before |-> arguments, after |-> Arguments_rewind(arguments)])]
    /\ UNCHANGED <<tree, cli, stack, outcome, log>>

NextArguments == Cursor_next \/ Cursor_rewind

SpecArguments == InitArguments /\ [][NextArguments]_vars

\* positions in the call history where next(); rewind(); next() starts
round_trips ==
    {i \in 1 .. Len(pure.calls) - 2 :
        /\ pure.calls[i].op = "next" /\ ~pure.calls[i].stop
        /\ pure.calls[i + 1].op = "rewind"
        /\ pure.calls[i + 2].op = "next"}

(***************************************************************************)
(* C15: in next(); rewind(); next() both next() calls return the same      *)
(* token; right after the rewind the trace no longer holds the token, and  *)
(* after the second next() it holds exactly one entry for it.              *)
(***************************************************************************)
C15_RewindThenNext ==
    \A i \in round_trips :
        /\ ~pure.calls[i + 2].stop
        /\ pure.calls[i + 2].argument = pure.calls[i].argument
        /\ pure.calls[i + 1].after.trace = pure.calls[i].before.trace
        /\ pure.calls[i + 2].after.trace = pure.calls[i].after.trace

(***************************************************************************)
(* C16: after every sequence of next() and rewind() calls, the consumed    *)
(* tokens of the trace followed by the tokens next() will still return are *)
(* the original token sequence in its original order.                      *)
(***************************************************************************)
C16_NothingLostOrReordered == pure.f = "cursor" => Input = pure.original

(***************************************************************************)
(* parse_positional_signature on its own: signatures of at most MaxLeaves  *)
(* positionals nested at most MaxDepth deep.  The first member of a nested *)
(* group is a positional: the function sets .optional on it.               *)
(***************************************************************************)
MaxLeaves == 3
MaxDepth == 3

Leaves ==
    {Positional(type, optional, FALSE) :
        type \in {"NativeString", "Integer"}, optional \in BOOLEAN}

\* the signatures (Forest) and members (Item) that hold the leaves in order
RECURSIVE Forest(_, _), Item(_, _)
Forest(leaves, d) ==
    IF leaves = <<>> THEN {<<>>}
    ELSE UNION {{<<item>> \o rest :
                    item \in Item(SubSeq(leaves, 1, k), d),
                    rest \in Forest(SubSeq(leaves, k + 1, Len(leaves)), d)} :
                k \in 1 .. Len(leaves)}

Item(leaves, d) ==
    (IF Len(leaves) = 1 THEN {P(leaves[1])} ELSE {})
    \cup (IF d = 0 THEN {}
          ELSE {G(items) : items \in {f \in Forest(leaves, d - 1) :
                                          f[1].k = "positional"}})

Signatures ==
    UNION {Forest(leaves, MaxDepth) :
              leaves \in SeqsUpTo(Leaves, MaxLeaves) \ {<<>>}}

InitSignature ==
    /\ tree = <<>>
    /\ cli = [kind |-> "Command", passthrough_errors |-> TRUE, exit_returns |-> FALSE]
    /\ arguments = Arguments(<<>>)
    /\ stack = <<>>
    /\ outcome = NotRun
    /\ log = <<>>
    /\ \E positionals \in Signatures :
        pure = [f |-> "signature", called |-> FALSE,
                positionals |-> positionals, result |-> <<>>]

\* parse_positional_signature(positionals)
Signature_call ==
    /\ pure.f = "signature"
    /\ ~pure.called
    /\ pure' = [pure EXCEPT !.called = TRUE,
                   !.result = parse_positional_signature(pure.positionals, TRUE)]
    /\ UNCHANGED <<tree, cli, arguments, stack, outcome, log>>

NextSignature == Signature_call

SpecSignature == InitSignature /\ [][NextSignature]_vars

\* the positionals of a signature as they were built, left to right
RECURSIVE built(_)
built(items) ==
    IF items = <<>> THEN <<>>
    ELSE (IF Head(items).k = "positional" THEN <<Head(items).p>>
          ELSE built(Head(items).items))
         \o built(Tail(items))

\* for each positional, whether it is the first member of a nested group
RECURSIVE leads(_, _)
leads(items, nested) ==
    IF items = <<>> THEN <<>>
    ELSE (IF Head(items).k = "positional" THEN <<nested>>
          ELSE leads(Head(items).items, TRUE))
         \o leads(Tail(items), FALSE)

optionals(chain) == [k \in DOMAIN chain |-> chain[k].optional]

A_B_C == <<P(Mandatory), P(Mandatory), P(Mandatory)>>
A_BC == <<P(Mandatory), G(<<P(Mandatory), P(Mandatory)>>)>>
All_nested ==
    <<G(<<P(Mandatory), G(<<P(Mandatory), G(<<P(Mandatory)>>)>>)>>)>>

(***************************************************************************)
(* C17: in the chain built from a signature whose positionals are all      *)
(* built mandatory, so that optionality comes from nesting only, every     *)
(* specification after an optional one is optional as well.                *)
(***************************************************************************)
C17_OptionalIsSuffix ==
    pure.f = "signature" /\ pure.called
    /\ (\A k \in DOMAIN built(pure.positionals) :
            ~built(pure.positionals)[k].optional)
    => \A k \in DOMAIN pure.result : \A j \in DOMAIN pure.result :
           k < j /\ pure.result[k].optional => pure.result[j].optional

(***************************************************************************)
(* C18: the chain holds the positionals of the signature in their order;   *)
(* the first member of each nested group is optional, every other          *)
(* positional keeps the flag it was built with.  (A, B, C) gives no        *)
(* optional, [[A, [B, [C]]]] all optional, (A, [B, C]) only the second.    *)
(***************************************************************************)
C18_FirstOfGroupOptional ==
    pure.f = "signature" /\ pure.called
    => /\ Len(pure.result) = Len(built(pure.positionals))
       /\ \A k \in DOMAIN pure.result :
              pure.result[k] =
                  [built(pure.positionals)[k] EXCEPT !.optional =
                      @ \/ leads(pure.positionals, FALSE)[k]]
       /\ pure.positionals = A_B_C
          => optionals(pure.result) = <<FALSE, FALSE, FALSE>>
       /\ pure.positionals = All_nested
          => optionals(pure.result) = <<TRUE, TRUE, TRUE>>
       /\ pure.positionals = A_BC
          => optionals(pure.result) = <<FALSE, TRUE, FALSE>>

C18_Witness ==
    /\ pure.f = "signature" /\ pure.called
    /\ pure.positionals = A_BC
    /\ optionals(pure.result) = <<FALSE, TRUE, FALSE>>

(***************************************************************************)
(* Registration on its own: add_option, add_options and remove_option      *)
(* called on a Command() in any order.  The registry is the sequence of    *)
(* its entries in insertion order; an entry is found by its position, as   *)
(* the code finds an option by its identity.                               *)
(***************************************************************************)
MaxRegistrations == 3

\* exceptions.py does not define the OptionConflict that __init__.py imports
OptionConflict == "OptionConflict"

l_aa == <<"-", "-", "a", "a">>

RegistrationOptions ==
    {Option(short, long, <<String>>, "store_last") :
        short \in {None, t_a, t_b}, long \in {None, l_aa}}
    \ {Option(None, None, <<String>>, "store_last")}

\* the mappings given to add_options: foo and bar, in this order
RegistrationMappings ==
    {<<Registered(id_foo, first),
       Registered(id_bar, Option(t_b, l_aa, <<String>>, "store_last"))>> :
        first \in RegistrationOptions}

\* the (conflicting, reason) pairs, the short one first
conflicting_options_short(command, option) ==
    IF option_shorts(command, option.short) # 0
    THEN <<[i |-> option_shorts(command, option.short), reason |-> "short"]>>
    ELSE <<>>

conflicting_options(command, option) ==
    (IF option_shorts(command, option.short) # 0
     THEN <<[i |-> option_shorts(command, option.short), reason |-> "short"]>>
     ELSE <<>>)
    \o (IF option_longs(command, option.long) # 0
        THEN <<[i |-> option_longs(command, option.long), reason |-> "long"]>>
        ELSE <<>>)

\* del self.options[...] on an entry the loop deleted before is a KeyError
delete(st, i) ==
    IF i \in st.removed THEN [st EXCEPT !.exc = "KeyError"]
    ELSE [st EXCEPT !.removed = @ \cup {i}]

\* one round of the for loop; st is [option, removed, exc]
resolve(st, conflict, force, resolve_conflicts) ==
    IF st.exc # "" THEN st
    ELSE IF conflict.reason = "short" THEN
        IF resolve_conflicts /\ st.option.long # None
        THEN [st EXCEPT !.option.short = None]
        ELSE IF force THEN delete(st, conflict.i)
        ELSE [st EXCEPT !.exc = OptionConflict]
    ELSE
        IF resolve_conflicts /\ st.option.short # None
        THEN [st EXCEPT !.option.long = None]
        ELSE IF force THEN delete(st, conflict.i)
        ELSE [st EXCEPT !.exc = OptionConflict]

RECURSIVE resolve_all(_, _, _, _)
resolve_all(st, conflicts, force, resolve_conflicts) ==
    IF conflicts = <<>> THEN st
    ELSE resolve_all(resolve(st, Head(conflicts), force, resolve_conflicts),
                     Tail(conflicts), force, resolve_conflicts)

\* the entries of the registry except those at the removed positions
RECURSIVE kept(_, _, _)
kept(options, removed, i) ==
    IF i > Len(options) THEN <<>>
    ELSE (IF i \in removed THEN <<>> ELSE <<options[i]>>)
         \o kept(options, removed, i + 1)

\* what add_option leaves: [exc, options]
registered(options, identifier, st) ==
    [exc |-> st.exc,
     options |-> kept(options, st.removed, 1)
                 \o (IF st.exc = "" THEN <<Registered(identifier, st.option)>>
                     ELSE <<>>)]

add_option(command, identifier, option, force, resolve_conflicts) ==
    registered(command.options, identifier,
               resolve_all([option |-> option, removed |-> {}, exc |-> ""],
                           conflicting_options(command, option),
                           force, resolve_conflicts))

\* add_options over the (identifier, option) pairs of the mapping, in order
RECURSIVE add_options(_, _, _, _)
add_options(command, options, force, resolve_conflicts) ==
    IF options = <<>> THEN [exc |-> "", options |-> command.options]
    ELSE IF add_option(command, Head(options).identifier, Head(options).option,
                       force, resolve_conflicts).exc # ""
    THEN add_option(command, Head(options).identifier, Head(options).option,
                    force, resolve_conflicts)
    ELSE add_options([command EXCEPT !.options =
                          add_option(command, Head(options).identifier,
                                     Head(options).option, force,
                                     resolve_conflicts).options],
                     Tail(options), force, resolve_conflicts)

\* remove_option of the entry at position i; 0 is an option never registered
remove_option(command, i) ==
    IF i = 0 THEN [exc |-> "KeyError", options |-> command.options]
    ELSE [exc |-> "", options |-> kept(command.options, {i}, 1)]

Call(op, options, force, resolve_conflicts, result) ==
    [f |-> "registration", calls |-> pure.calls + 1, op |-> op,
     given |-> options, force |-> force, resolve_conflicts |-> resolve_conflicts,
     before |-> tree[1], exc |-> result.exc]

InitRegistration ==
    /\ tree = <<Command(<<>>, <<>>, <<>>, "own")>>
    /\ cli = [kind |-> "Command", passthrough_errors |-> TRUE, exit_returns |-> FALSE]
    /\ arguments = Arguments(<<>>)
    /\ stack = <<>>
    /\ outcome = NotRun
    /\ log = <<>>
    /\ pure = [f |-> "registration", calls |-> 0, op |-> "Command", given |-> <<>>,
               force |-> FALSE, resolve_conflicts |-> FALSE,
               before |-> Command(<<>>, <<>>, <<>>, "own"), exc |-> ""]

Registration(op, options, force, resolve_conflicts, result) ==
    /\ tree' = [tree EXCEPT ![1].options = result.options]
    /\ pure' = Call(op, options, force, resolve_conflicts, result)
    /\ UNCHANGED <<cli, arguments, stack, outcome, log>>

Add_option ==
    /\ pure.f = "registration"
    /\ pure.calls < MaxRegistrations
    /\ \E option \in RegistrationOptions, force \in BOOLEAN,
          resolve_conflicts \in BOOLEAN :
           Registration("add_option", <<Registered(id_foo, option)>>,
                        force, resolve_conflicts,
                        add_option(tree[1], id_foo, option, force,
                                   resolve_conflicts))

Add_options ==
    /\ pure.f = "registration"
    /\ pure.calls < MaxRegistrations
    /\ \E options \in RegistrationMappings, force \in BOOLEAN,
          resolve_conflicts \in BOOLEAN :
           Registration("add_options", options, force, resolve_conflicts,
                        add_options(tree[1], options, force, resolve_conflicts))

Remove_option ==
    /\ pure.f = "registration"
    /\ pure.calls < MaxRegistrations
    /\ \E i \in 0 .. Len(tree[1].options) :
           Registration("remove_option", <<>>, FALSE, FALSE,
                        remove_option(tree[1], i))

NextRegistration == Add_option \/ Add_options \/ Remove_option

SpecRegistration == InitRegistration /\ [][NextRegistration]_vars

\* the option add_option was last called with
given_option == pure.given[1].option

\* the positions of the registered options that share a form with option
colliding(command, option) ==
    {i \in DOMAIN command.options :
        \/ option.short # None /\ command.options[i].option.short = option.short
        \/ option.long # None /\ command.options[i].option.long = option.long}

distinct_forms(options) ==
    \A i \in DOMAIN options : \A j \in DOMAIN options :
        i # j => /\ options[i].option.short # None
                    => options[i].option.short # options[j].option.short
                 /\ options[i].option.long # None
                    => options[i].option.long # options[j].option.long

(***************************************************************************)
(* C19: after any sequence of add_option, add_options and remove_option    *)
(* calls, rejected ones included, no two registered options have the same  *)
(* short form and no two the same long form; add_option of an option that  *)
(* collides with a registered one, without force and resolve_conflicts,    *)
(* raises OptionConflict and registers nothing.                            *)
(***************************************************************************)
C19_FormsPairwiseDistinct ==
    pure.f = "registration"
    => /\ distinct_forms(tree[1].options)
       /\ pure.op = "add_option" /\ ~pure.force /\ ~pure.resolve_conflicts
          /\ colliding(pure.before, given_option) # {}
          => pure.exc = OptionConflict /\ tree[1] = pure.before

C19_Witness ==
    /\ pure.f = "registration" /\ pure.calls = MaxRegistrations
    /\ pure.op = "add_option" /\ ~pure.force /\ ~pure.resolve_conflicts
    /\ colliding(pure.before, given_option) # {}
    /\ pure.exc = OptionConflict
    /\ Len(tree[1].options) = 3

(***************************************************************************)
(* C20: add_option with force (and without resolve_conflicts) raises       *)
(* nothing; afterwards no registered option that collided with the new one *)
(* is left, and the new option is the last entry of the registry.          *)
(***************************************************************************)
C20_ForceNeverFails ==
    pure.f = "registration" /\ pure.op = "add_option"
    /\ pure.force /\ ~pure.resolve_conflicts
    => /\ pure.exc = ""
       /\ tree[1].options =
              kept(pure.before.options, colliding(pure.before, given_option), 1)
              \o <<Registered(id_foo, given_option)>>

(***************************************************************************)
(* Building a command tree: add_command and add_positional on commands     *)
(* that exist already, and the construction of an Option.  tree[1] is a    *)
(* command of a class with class-level positionals; tree[3] and tree[4]    *)
(* are the commands given to add_command.  pure.parent holds .parent of    *)
(* each command, 0 for None.                                               *)
(***************************************************************************)
MaxBuild == 2

\* exceptions.py defines neither of the two that __init__.py imports
CommandConflict == "CommandConflict"
PositionalConflict == "PositionalConflict"

BuildSignatures ==
    {<<>>, <<String>>, <<Remaining>>, <<String, Remaining>>,
     <<Remaining, String>>, <<P(Optional), String>>}

BuildPositionals == {Mandatory, Optional, Positional("NativeString", FALSE, TRUE)}

\* self.commands[name] = command: a known key keeps its place
commands_set(commands, name, child) ==
    IF \E i \in DOMAIN commands : commands[i].name = name
    THEN [i \in DOMAIN commands |->
              IF commands[i].name = name THEN Child(name, child) ELSE commands[i]]
    ELSE Append(commands, Child(name, child))

\* an add_command that never looks for the name
add_command_unchecked(command, name, child, force) ==
    [exc |-> "", adopted |-> TRUE,
     commands |-> commands_set(command.commands, name, child)]

\* add_command: [exc, adopted, commands]; adopted is command.parent = self
add_command(command, name, child, force) ==
    IF ~force /\ is_command(command, name)
    THEN [exc |-> CommandConflict, adopted |-> FALSE, commands |-> command.commands]
    ELSE [exc |-> "", adopted |-> TRUE,
          commands |-> commands_set(command.commands, name, child)]

\* an add_positional that accepts a positional behind a remaining one
add_positional_unchecked(command, positional, metavar) ==
    IF metavar = None THEN [exc |-> "ValueError", positionals |-> command.positionals]
    ELSE [exc |-> "", positionals |-> Append(command.positionals, positional)]

\* add_positional: [exc, positionals]
add_positional(command, positional, metavar) ==
    IF metavar = None THEN [exc |-> "ValueError", positionals |-> command.positionals]
    ELSE IF command.positionals # <<>>
            /\ command.positionals[Len(command.positionals)].remaining
    THEN [exc |-> PositionalConflict, positionals |-> command.positionals]
    ELSE [exc |-> "", positionals |-> Append(command.positionals, positional)]

\* Option(short, *signature): [exc, option]
Option_init(short, signature) ==
    IF signature = <<>> THEN [exc |-> "TypeError", option |-> NoneV]
    ELSE IF parse_positional_signature(signature, TRUE)[1].optional
    THEN [exc |-> "ValueError", option |-> NoneV]
    ELSE [exc |-> "", option |-> Option(short, None, signature, "store_last")]

Built(op, target, name, child, force, given, exc, made) ==
    [pure EXCEPT !.calls = @ + 1, !.op = op, !.target = target, !.name = name,
                 !.child = child, !.force = force, !.given = given, !.exc = exc,
                 !.made = made, !.before = tree, !.parent_before = pure.parent]

InitBuild ==
    /\ cli = [kind |-> "Command", passthrough_errors |-> TRUE, exit_returns |-> FALSE]
    /\ arguments = Arguments(<<>>)
    /\ stack = <<>>
    /\ outcome = NotRun
    /\ log = <<>>
    /\ \E positionals \in BuildSignatures :
        /\ tree = <<Command(<<>>, <<>>, positionals, "own"),
                    Command(<<>>, <<>>, <<>>, "own"),
                    Command(<<>>, <<>>, <<>>, "own"),
                    Command(<<>>, <<>>, <<>>, "own")>>
        /\ pure = [f |-> "build", calls |-> 0, op |-> "Command", target |-> 1,
                   name |-> <<>>, child |-> 0, force |-> FALSE,
                   given |-> positionals, exc |-> "", made |-> NoneV,
                   positionals |-> positionals,
                   before |-> <<>>, parent |-> <<0, 0, 0, 0>>,
                   parent_before |-> <<0, 0, 0, 0>>]

Add_command ==
    /\ pure.f = "build"
    /\ pure.calls < MaxBuild
    /\ \E target \in {1, 2}, name \in {t_sub, t_leaf}, child \in {3, 4},
          force \in BOOLEAN :
        LET added == add_command(tree[target], name, child, force)
        IN /\ tree' = [tree EXCEPT ![target].commands = added.commands]
           /\ pure' = [Built("add_command", target, name, child, force, <<>>,
                             added.exc, NoneV)
                       EXCEPT !.parent[child] = IF added.adopted THEN target ELSE @]
    /\ UNCHANGED <<cli, arguments, stack, outcome, log>>

Add_positional ==
    /\ pure.f = "build"
    /\ pure.calls < MaxBuild
    /\ \E positional \in BuildPositionals, metavar \in {None, id_foo} :
        LET added == add_positional(tree[1], positional, metavar)
        IN /\ tree' = [tree EXCEPT ![1].positionals = added.positionals]
           /\ pure' = Built("add_positional", 1, metavar, 0, FALSE,
                            <<P(positional)>>, added.exc, NoneV)
    /\ UNCHANGED <<cli, arguments, stack, outcome, log>>

New_option ==
    /\ pure.f = "build"
    /\ pure.calls < MaxBuild
    /\ \E signature \in BuildSignatures :
        pure' = Built("Option", 0, <<>>, 0, FALSE, signature,
                      Option_init(t_a, signature).exc,
                      Option_init(t_a, signature).option)
    /\ UNCHANGED <<tree, cli, arguments, stack, outcome, log>>

NextBuild == Add_command \/ Add_positional \/ New_option

SpecBuild == InitBuild /\ [][NextBuild]_vars

(***************************************************************************)
(* C21: add_command with a name the command has already, without force,    *)
(* raises CommandConflict and leaves the commands mapping and the parent   *)
(* of the rejected command as they were; with force the name maps to the   *)
(* new child; after a successful add_command the parent of the child is    *)
(* the command it was added to.                                            *)
(***************************************************************************)
C21_AddCommand ==
    pure.f = "build" /\ pure.op = "add_command"
    => LET known == is_command(pure.before[pure.target], pure.name)
           commands == tree[pure.target].commands
       IN /\ known /\ ~pure.force
             => /\ pure.exc = CommandConflict
                /\ tree = pure.before
                /\ pure.parent = pure.parent_before
          /\ ~known \/ pure.force
             => /\ pure.exc = ""
                /\ commands[commands_index(tree[pure.target], pure.name)].command
                       = pure.child
                /\ Cardinality({i \in DOMAIN commands :
                                   commands[i].name = pure.name}) = 1
                /\ pure.parent[pure.child] = pure.target

C21_Witness ==
    /\ pure.f = "build" /\ pure.op = "add_command"
    /\ pure.exc = CommandConflict
    /\ tree[1].commands = <<Child(t_sub, 3)>>
    /\ pure.child = 4 /\ pure.parent[4] = 0 /\ pure.parent[3] = 1

\* a remaining specification is nowhere but at the end of the chain
remaining_last(chain) ==
    \A k \in DOMAIN chain : chain[k].remaining => k = Len(chain)

takes_rest(chain) == chain # <<>> /\ chain[Len(chain)].remaining

C30_RemainingIsLast ==
    pure.f = "build"
    => /\ pure.op = "Command" => remaining_last(tree[1].positionals)
       /\ pure.op = "Option" /\ pure.exc = ""
          => remaining_last(pure.made.positionals)

\* the help option is the first option of the command
help_first(command) ==
    command.options # <<>> /\ command.options[1] = Registered(id_help, HelpOption)

\* the token of event i matched the help option as a whole
help_token(i) == log[i].e = "token" /\ ~log[i].match.run /\ log[i].match.option = 1

(***************************************************************************)
(* C23: every command has the help option as its first option; a token    *)
(* that matches the help option is followed by help being printed and the  *)
(* exit hook being called (where the command has output streams); no       *)
(* option chain is ever parsed under the help option's identifier, for a   *)
(* whole token or for a character of a bundle, so no operand is consumed   *)
(* for it and main never receives a value under that identifier.           *)
(***************************************************************************)
C23_HelpShortCircuits ==
    /\ \A c \in DOMAIN tree : help_first(tree[c])
    /\ \A i \in DOMAIN log :
           help_token(i) /\ has_streams /\ Finished
           => /\ i + 2 <= Len(log)
              /\ log[i + 1].e = "print_help" /\ log[i + 2].e = "exit"
    /\ \A i \in Events("parse") : log[i].name # id_help
    /\ \A i \in Events("main") : id_help \notin DOMAIN log[i].kwargs

(***************************************************************************)
(* C24: in a run called with passthrough_errors, no error line is printed, *)
(* the exit hook is not called for an error, and every user-facing error   *)
(* that is raised in the root or in a child it delegated to, and the       *)
(* CommandMissing of a main, is what the run call raises to its caller.    *)
(***************************************************************************)
C24_PassthroughReachesCaller ==
    cli.passthrough_errors /\ pure = NoPure
    => /\ Events("print_error") = {}
       /\ \A i \in Events("exit") : log[i].code # exit_code
       /\ \A i \in Events("raise") :
              log[i].exc \in CLIError /\ Finished => outcome = Raised(log[i].exc)
       /\ Events("command_missing") # {} /\ Finished
          => outcome = Raised("CommandMissing")

\* event i is a user-facing error raised in the dispatch
error_event(i) ==
    \/ log[i].e \in {"parse", "positional"} /\ log[i].exc \in CLIError
    \/ log[i].e = "unexpected"
    \/ log[i].e = "exhausted" /\ log[i].missing
    \/ log[i].e = "command_missing"

(***************************************************************************)
(* C25: in the dispatch of a CLI without passthrough_errors, a user-facing *)
(* error is followed at once by the error line, the help of the failing    *)
(* command and the call of the exit hook with the error's status, in this  *)
(* order; no main is invoked afterwards; the run ends with the exit hook's *)
(* termination, or with the AssertionError when the hook returned.         *)
(***************************************************************************)
C25_ErrorThenHelpThenExit ==
    cli.kind = "CLI" /\ ~cli.passthrough_errors /\ Finished
    => \A i \in DOMAIN log :
           error_event(i)
           => /\ i + 3 <= Len(log)
              /\ log[i + 1].e = "print_error"
              /\ log[i + 2].e = "print_help"
              /\ log[i + 2].command = log[i].command
              /\ log[i + 3].e = "exit" /\ log[i + 3].code = exit_code
              /\ \A j \in Events("main") : j < i
              /\ outcome = Raised(IF cli.exit_returns THEN "AssertionError"
                                  ELSE "SystemExit")

is_prefix(short, long) ==
    Len(short) <= Len(long) /\ SubSeq(long, 1, Len(short)) = short

(***************************************************************************)
(* C26: the main of a command reached through delegation receives the      *)
(* values its ancestors had resolved when they delegated: their positional *)
(* values in front of its own, and their option values under the same      *)
(* identifiers, unless an option parsed further down stored under that     *)
(* identifier again.                                                       *)
(***************************************************************************)
C26_ChildInheritsValues ==
    \A i \in Events("delegate") : \A j \in Events("main") :
        i < j /\ ~log[i].kwargs_none
        => /\ is_prefix(log[i].args, log[j].args)
           /\ \A key \in DOMAIN log[i].kwargs :
                  /\ key \in DOMAIN log[j].kwargs
                  /\ (\A k \in Events("parse") : i < k /\ k < j => log[k].name # key)
                     => log[j].kwargs[key] = log[i].kwargs[key]

C26_Witness ==
    /\ Input = <<t_a, t_x, t_sub, t_leaf>>
    /\ Cardinality(Events("delegate")) = 2
    /\ Finished
    /\ \E j \in Events("main") :
           /\ log[j].command = 3 /\ log[j].args = <<>>
           /\ log[j].kwargs = dict_set(EmptyDict, id_foo, StrV(t_x))

\* the number of operand tokens that the result of a chain holds
operand_count(result) == IF result.t = "list" THEN Len(result.v) ELSE 1

(***************************************************************************)
(* C27: when the chain of an option (no remaining member, the whole token  *)
(* matched) returns and the token behind the operands it returned is a     *)
(* registered option, that token is the next one the dispatch loop sees,   *)
(* and it is matched as an option.                                         *)
(***************************************************************************)
C27_NoTokenDiscarded ==
    \A i \in Events("parse") :
        /\ log[i].exc = "" /\ log[i].residual = <<>>
        /\ \A k \in DOMAIN used_option(log[i]).positionals :
               ~used_option(log[i]).positionals[k].remaining
        /\ operand_count(log[i].result) < Len(pending_before(log[i]))
        /\ is_option(tree[log[i].command],
                     pending_before(log[i])[operand_count(log[i].result) + 1])
        /\ Finished
        => /\ i < Len(log)
           /\ log[i + 1].e = "token"
           /\ log[i + 1].argument =
                  pending_before(log[i])[operand_count(log[i].result) + 1]

RECURSIVE feeds(_)
feeds(i) ==
    IF i + 1 \in Events("parse") /\ log[i + 1].depth = log[i].depth
    THEN {i + 1} \cup feeds(i + 1) ELSE {}

\* a step that starts an iteration of the for loop with a token
iteration == outcome = Running /\ top.pc = "for" /\ ~Arguments_next(arguments).stop

\* how far the innermost run call is from its end, for a given cursor: the
\* while loop by its residual, then the for loop, main, and the way out
progress ==
    IF top.pc = "while" THEN 23 + Len(top.modified)
    ELSE IF top.pc = "for" THEN 22
    ELSE IF top.pc = "main" THEN 21
    ELSE 3 * depth + (IF top.pc = "return" THEN 1 ELSE IF handled(top) THEN 3 ELSE 2)

\* a number that bounds the steps a dispatch still takes
rank ==
    IF outcome # Running THEN 0
    ELSE 100 * Len(Arguments_pending(arguments)) + progress

(***************************************************************************)
(* C29: a dispatch terminates: every step lowers a natural number, which   *)
(* is made of the tokens still pending and of the length of the residual;  *)
(* each iteration of the for loop takes at least one token from the        *)
(* cursor; the residuals of one token are each shorter than the one        *)
(* before, the first shorter than the token, so that a token of n          *)
(* characters is fed to at most n - 1 option matches.                      *)
(***************************************************************************)
C29_Terminates ==
    /\ [][/\ rank' < rank
          /\ iteration => Len(Arguments_pending(arguments'))
                              < Len(Arguments_pending(arguments))]_vars
    /\ [](\A i \in Events("token") :
              /\ Cardinality(feeds(i)) <= Len(log[i].argument) - 1
              /\ \A k \in feeds(i) :
                     /\ Len(log[k].residual) < Len(log[i].argument)
                     /\ k + 1 \in feeds(i)
                        => Len(log[k + 1].residual) < Len(log[k].residual))

C29_Witness ==
    /\ Finished
    /\ Events("main") # {}
    /\ \E i \in Events("token") :
           /\ log[i].argument = t_ab
           /\ Cardinality(feeds(i)) = 2

====
